---- MODULE Spec2Model ----
(***************************************************************************)
(* create_palette_texture.py: builds the 32x8 palette shadow lookup        *)
(* texture.  Column x is a palette colour index, row y a shadow level; the *)
(* pixel at (x, y) is palette_colors[shadow_levels[x][y]].  The script     *)
(* fills the image in a nested loop, saves it and prints a confirmation.   *)
(***************************************************************************)
EXTENDS Integers, Sequences, FiniteSets, TLC

VARIABLES shadow_levels,  \* the shadow table the loop reads (dict: index -> row)
          palette_idx,    \* outer loop variable
          shadow_level,   \* inner loop variable
          img,            \* the PIL image: img[x][y] is an RGB triple
          writes,         \* history: number of putpixel calls per pixel
          in_order,       \* history: every iteration so far ran in loop order
          pc,             \* "fill", "save", "print", "done", "error"
          err,            \* the uncaught exception, "none" if there is none
          file,           \* the output file: <<>> if absent, <<grid>> if written
          stdout,         \* the lines printed so far
          exit_status     \* -1 while running, then the process exit status

vars == <<shadow_levels, palette_idx, shadow_level, img, writes, in_order, pc,
          err, file, stdout, exit_status>>

----------------------------------------------------------------------------
(* Bounds of the model *)

\* Shadow-table entries tried around the edges of the valid range: every
\* value within Slack of -32, -1/0 and 31/32.
Slack == 1

\* In the any-order fill, a pixel may be written at most Window - 1 places
\* ahead of the lowest pixel still unwritten.
Window == 3

----------------------------------------------------------------------------
(* Data of the script *)

width == 32
height == 8

\* Picotron 32-colour palette; indices 0..31 are positions 1..32 here.
palette_colors ==
    << <<0, 0, 0>>,
       <<29, 43, 83>>,
       <<126, 37, 83>>,
       <<0, 135, 81>>,
       <<171, 82, 54>>,
       <<95, 87, 79>>,
       <<194, 195, 199>>,
       <<255, 241, 232>>,
       <<255, 0, 77>>,
       <<255, 163, 0>>,
       <<255, 236, 39>>,
       <<0, 228, 54>>,
       <<41, 173, 255>>,
       <<131, 118, 156>>,
       <<255, 119, 168>>,
       <<255, 204, 170>>,
       <<28, 94, 172>>,
       <<0, 165, 161>>,
       <<117, 78, 151>>,
       <<18, 83, 89>>,
       <<116, 47, 41>>,
       <<73, 45, 56>>,
       <<162, 136, 121>>,
       <<255, 172, 197>>,
       <<195, 0, 76>>,
       <<235, 107, 0>>,
       <<144, 236, 66>>,
       <<0, 178, 81>>,
       <<100, 223, 246>>,
       <<189, 154, 223>>,
       <<228, 13, 171>>,
       <<255, 133, 109>> >>

\* Shadow level mappings: 8 levels per colour (levels 0..7 are positions 1..8).
ShadowLiteral ==
    (0 :> <<0, 0, 0, 0, 0, 0, 0, 0>>) @@
    (1 :> <<1, 1, 1, 0, 0, 0, 0, 0>>) @@
    (2 :> <<2, 2, 21, 21, 1, 0, 0, 0>>) @@
    (3 :> <<3, 3, 19, 19, 1, 1, 0, 0>>) @@
    (4 :> <<4, 4, 20, 20, 21, 1, 0, 0>>) @@
    (5 :> <<5, 5, 21, 21, 1, 0, 0, 0>>) @@
    (6 :> <<6, 13, 13, 5, 5, 21, 1, 0>>) @@
    (7 :> <<7, 6, 6, 13, 5, 5, 1, 0>>) @@
    (8 :> <<8, 8, 24, 24, 2, 21, 1, 0>>) @@
    (9 :> <<9, 9, 25, 25, 4, 20, 21, 0>>) @@
    (10 :> <<10, 10, 9, 25, 4, 20, 1, 0>>) @@
    (11 :> <<11, 11, 27, 27, 3, 19, 1, 0>>) @@
    (12 :> <<12, 12, 16, 16, 1, 1, 0, 0>>) @@
    (13 :> <<13, 13, 5, 5, 21, 1, 0, 0>>) @@
    (14 :> <<14, 14, 8, 8, 24, 2, 1, 0>>) @@
    (15 :> <<15, 15, 4, 4, 20, 21, 1, 0>>) @@
    (16 :> <<16, 16, 1, 1, 0, 0, 0, 0>>) @@
    (17 :> <<17, 17, 19, 19, 1, 1, 0, 0>>) @@
    (18 :> <<18, 18, 2, 2, 21, 1, 0, 0>>) @@
    (19 :> <<19, 19, 1, 1, 0, 0, 0, 0>>) @@
    (20 :> <<20, 20, 21, 21, 1, 0, 0, 0>>) @@
    (21 :> <<21, 21, 1, 0, 0, 0, 0, 0>>) @@
    (22 :> <<22, 22, 5, 5, 21, 1, 0, 0>>) @@
    (23 :> <<23, 23, 14, 14, 8, 24, 2, 0>>) @@
    (24 :> <<24, 24, 2, 2, 21, 1, 0, 0>>) @@
    (25 :> <<25, 25, 4, 4, 20, 21, 1, 0>>) @@
    (26 :> <<26, 26, 11, 11, 27, 3, 19, 0>>) @@
    (27 :> <<27, 27, 3, 3, 19, 1, 0, 0>>) @@
    (28 :> <<28, 28, 12, 12, 16, 1, 0, 0>>) @@
    (29 :> <<29, 29, 13, 13, 5, 21, 1, 0>>) @@
    (30 :> <<30, 30, 24, 24, 2, 21, 1, 0>>) @@
    (31 :> <<31, 31, 8, 8, 24, 2, 1, 0>>)

\* Slips of the hand in the table: an entry mistyped out of range, a row
\* shifted by one level, two entries of a row exchanged.
RefShadowLevels_Entry72 == [ShadowLiteral EXCEPT ![26][5] = 72]

RefShadowLevels_Row9Shifted ==
    [ShadowLiteral EXCEPT ![9] = <<9, 9, 9, 25, 25, 4, 20, 21>>]

RefShadowLevels_Row9Swapped ==
    [ShadowLiteral EXCEPT ![9] = <<9, 9, 25, 25, 4, 21, 20, 0>>]

RefShadowLevels == ShadowLiteral

Columns == 0 .. 31
Rows == 0 .. 7
output_path == "assets/palette_shadow_lookup.png"

----------------------------------------------------------------------------
(* Python and PIL primitives used by the script *)

\* list[i]: Python accepts -len <= i < len and counts negative i from the end.
PyIndexOK(list, i) == -Len(list) <= i /\ i < Len(list)

PyIndex(list, i) == IF i >= 0 THEN list[i + 1] ELSE list[Len(list) + i + 1]

\* PIL stores each channel of an RGB ink clipped to 8 bits.
CLIP8(v) == IF v < 0 THEN 0 ELSE IF v > 255 THEN 255 ELSE v

\* Image.new('RGB', (width, height)): every pixel black.
NewImage == [x \in 0 .. width - 1 |-> [y \in 0 .. height - 1 |-> <<0, 0, 0>>]]

\* Slips in the pixel write: the channels stored in BGR order; the write
\* running over into the next pixel of the buffer and blanking it.
PutPixel_BGR(im, x, y, rgb) ==
    [im EXCEPT ![x][y] = <<CLIP8(rgb[3]), CLIP8(rgb[2]), CLIP8(rgb[1])>>]

PutPixel_Overrun(im, x, y, rgb) ==
    LET one == [im EXCEPT ![x][y] = <<CLIP8(rgb[1]), CLIP8(rgb[2]), CLIP8(rgb[3])>>]
    IN  IF y + 1 < height THEN [one EXCEPT ![x][y + 1] = <<0, 0, 0>>]
        ELSE IF x + 1 < width THEN [one EXCEPT ![x + 1][0] = <<0, 0, 0>>]
        ELSE one

\* img.putpixel((x, y), rgb)
PutPixel(im, x, y, rgb) ==
    [im EXCEPT ![x][y] = <<CLIP8(rgb[1]), CLIP8(rgb[2]), CLIP8(rgb[3])>>]

----------------------------------------------------------------------------
(* The fill loop *)

\* The exception the loop body raises at pixel (p, s), "none" if it raises
\* none: shadow_levels[p] is a dict lookup, [s] and palette_colors[...] are
\* list subscripts.
BodyError(tbl, p, s) ==
    IF p \notin DOMAIN tbl THEN "KeyError"
    ELSE IF ~PyIndexOK(tbl[p], s) THEN "IndexError"
    ELSE IF ~PyIndexOK(palette_colors, PyIndex(tbl[p], s)) THEN "IndexError"
    ELSE "none"

\* Slip in the lookup: the level taken one too low.
ShadowIdx_OffByOne(tbl, p, s) == PyIndex(tbl[p], s - 1)

\* shadow_idx = shadow_levels[palette_idx][shadow_level]
ShadowIdx(tbl, p, s) == PyIndex(tbl[p], s)

\* rgb = palette_colors[shadow_idx]
BodyRGB(tbl, p, s) == PyIndex(palette_colors, ShadowIdx(tbl, p, s))

\* Slip in the inner range: range(7).
NextPixel_Range7(p, s) == IF s + 1 < 7 THEN <<p, s + 1>> ELSE <<p + 1, 0>>

\* The nested for loops: range(8) inside, range(32) outside.  The position
\* after (p, s), and whether a position is past the end of the outer range.
NextPixel(p, s) == IF s + 1 < 8 THEN <<p, s + 1>> ELSE <<p + 1, 0>>

LoopOver(p) == p >= 32

\* Position of a pixel in the order in which the loop visits them.
Linear(p, s) == p * 8 + s

\* The shadow tables tried: the script's own, and the script's own with one
\* entry replaced.
PerturbCells == {<<0, 0>>, <<8, 2>>, <<31, 7>>}

PerturbValues ==
    ((-32 - Slack) .. (-32 + Slack)) \cup ((-Slack) .. Slack)
        \cup ((31 - Slack) .. (31 + Slack))

Perturb(tbl, p, s, v) == [tbl EXCEPT ![p][s + 1] = v]

Tables ==
    {RefShadowLevels} \cup
    {Perturb(RefShadowLevels, c[1], c[2], v) : c \in PerturbCells, v \in PerturbValues}

Init ==
    /\ shadow_levels \in Tables
    /\ palette_idx = 0
    /\ shadow_level = 0
    /\ img = NewImage
    /\ writes = [x \in 0 .. width - 1 |-> [y \in 0 .. height - 1 |-> 0]]
    /\ in_order = TRUE
    /\ pc = "fill"
    /\ err = "none"
    /\ file = <<>>
    /\ stdout = <<>>
    /\ exit_status = -1

\* Slip in the loop: an exception of the body swallowed, the pixel skipped.
Fill_SkipBad ==
    /\ pc = "fill"
    /\ LET p == palette_idx
           s == shadow_level
           e == BodyError(shadow_levels, p, s)
       IN  /\ IF e # "none"
              THEN UNCHANGED <<img, writes>>
              ELSE /\ img' = PutPixel(img, p, s, BodyRGB(shadow_levels, p, s))
                   /\ writes' = [writes EXCEPT ![p][s] = @ + 1]
           /\ IF LoopOver(NextPixel(p, s)[1])
              THEN pc' = "save" /\ UNCHANGED <<palette_idx, shadow_level>>
              ELSE /\ pc' = "fill"
                   /\ palette_idx' = NextPixel(p, s)[1]
                   /\ shadow_level' = NextPixel(p, s)[2]
    /\ UNCHANGED <<shadow_levels, in_order, err, exit_status, file, stdout>>

\* One iteration of the loop body at the loop's current position.
Fill ==
    /\ pc = "fill"
    /\ LET p == palette_idx
           s == shadow_level
           e == BodyError(shadow_levels, p, s)
       IN  IF e # "none"
           THEN /\ pc' = "error"
                /\ err' = e
                /\ exit_status' = 1
                /\ UNCHANGED <<img, writes, palette_idx, shadow_level>>
           ELSE /\ img' = PutPixel(img, p, s, BodyRGB(shadow_levels, p, s))
                /\ writes' = [writes EXCEPT ![p][s] = @ + 1]
                /\ IF LoopOver(NextPixel(p, s)[1])
                   THEN pc' = "save" /\ UNCHANGED <<palette_idx, shadow_level>>
                   ELSE /\ pc' = "fill"
                        /\ palette_idx' = NextPixel(p, s)[1]
                        /\ shadow_level' = NextPixel(p, s)[2]
                /\ UNCHANGED <<err, exit_status>>
    /\ UNCHANGED <<shadow_levels, in_order, file, stdout>>

\* Slip in the save: a failure of the codec swallowed.
Save_IgnoreError ==
    /\ pc = "save"
    /\ \E writable \in BOOLEAN :
          /\ file' = IF writable THEN <<img>> ELSE file
          /\ pc' = "print"
    /\ UNCHANGED <<shadow_levels, palette_idx, shadow_level, img, writes, in_order,
                   err, exit_status, stdout>>

\* img.save(output_path): the codec writes the whole image or raises.
Save ==
    /\ pc = "save"
    /\ \E writable \in BOOLEAN :
          IF writable
          THEN /\ file' = <<img>>
               /\ pc' = "print"
               /\ UNCHANGED <<err, exit_status>>
          ELSE /\ pc' = "error"
               /\ err' = "OSError"
               /\ exit_status' = 1
               /\ UNCHANGED file
    /\ UNCHANGED <<shadow_levels, palette_idx, shadow_level, img, writes, in_order,
                   stdout>>

\* The four print calls, then the script ends.
Confirmation ==
    << <<"Created palette shadow lookup texture: ", output_path>>,
       <<"Size: ", width, "x", height, " pixels">>,
       <<"Each column represents a palette color (0-31)">>,
       <<"Each row represents a shadow level (0=brightest, 7=darkest)">> >>

Report ==
    /\ pc = "print"
    /\ stdout' = stdout \o Confirmation
    /\ pc' = "done"
    /\ exit_status' = 0
    /\ UNCHANGED <<shadow_levels, palette_idx, shadow_level, img, writes, in_order,
                   err, file>>

Next == Fill \/ Save \/ Report

Spec == Init /\ [][Next]_vars

\* The script runs to its end: no step that can be taken is put off forever.
FairSpec == Spec /\ WF_vars(Next)

----------------------------------------------------------------------------
(* The same loop body run in another order.  The pixels of the fill loop   *)
(* are taken in any order in which no pixel runs Window or more places     *)
(* ahead of the lowest pixel still unwritten: what a pool of Window        *)
(* workers handing out the iterations in loop order can produce.           *)

\* palette_idx and shadow_level hold the lowest position not yet run.
Written(w, k) == w[k \div 8][k % 8] > 0

\* The first position from base on that is unwritten in w; 32 * 8 if there
\* is none.  Nothing at base + Window or beyond has been written.
FirstUnwritten(w, base) ==
    CHOOSE k \in base .. (base + Window) :
        /\ k >= 32 * 8 \/ ~Written(w, k)
        /\ \A j \in base .. (k - 1) : j < 32 * 8 /\ Written(w, j)

Eligible ==
    LET base == Linear(palette_idx, shadow_level)
    IN  {xy \in {<<k \div 8, k % 8>> : k \in base .. (base + Window - 1)} :
            /\ xy[1] \in Columns
            /\ writes[xy[1]][xy[2]] = 0}

FillAny ==
    /\ pc = "fill"
    /\ \E xy \in Eligible :
          LET p == xy[1]
              s == xy[2]
              e == BodyError(shadow_levels, p, s)
              base == FirstUnwritten(writes', Linear(palette_idx, shadow_level))
          IN  /\ IF e # "none"
                 THEN /\ pc' = "error"
                      /\ err' = e
                      /\ exit_status' = 1
                      /\ UNCHANGED <<img, writes, palette_idx, shadow_level>>
                 ELSE /\ img' = PutPixel(img, p, s, BodyRGB(shadow_levels, p, s))
                      /\ writes' = [writes EXCEPT ![p][s] = @ + 1]
                      /\ IF LoopOver(base \div 8)
                         THEN pc' = "save" /\ palette_idx' = 31 /\ shadow_level' = 7
                         ELSE /\ pc' = "fill"
                              /\ palette_idx' = base \div 8
                              /\ shadow_level' = base % 8
                      /\ UNCHANGED <<err, exit_status>>
              /\ in_order' = (in_order /\ Linear(p, s) = Linear(palette_idx, shadow_level))
    /\ UNCHANGED <<shadow_levels, file, stdout>>

NextAny == FillAny \/ Save \/ Report

SpecAny == Init /\ [][NextAny]_vars

\* The result of the loop as the script runs it: the inner loop from level
\* s on within column p, the outer loop from column p on.  Each gives the
\* image and the exception that ended the loop, if any.
RECURSIVE SeqColumn(_, _, _, _)
SeqColumn(tbl, im, p, s) ==
    IF s = 8 THEN [img |-> im, err |-> "none"]
    ELSE IF BodyError(tbl, p, s) # "none"
    THEN [img |-> im, err |-> BodyError(tbl, p, s)]
    ELSE SeqColumn(tbl, PutPixel(im, p, s, BodyRGB(tbl, p, s)), p, s + 1)

RECURSIVE SeqFill(_, _, _)
SeqFill(tbl, im, p) ==
    IF p = 32 THEN [img |-> im, err |-> "none"]
    ELSE LET col == SeqColumn(tbl, im, p, 0)
         IN  IF col.err # "none" THEN col ELSE SeqFill(tbl, col.img, p + 1)

SeqBuild(tbl) == SeqFill(tbl, NewImage, 0)

----------------------------------------------------------------------------
(* Properties *)

Entry(tbl, p, s) == tbl[p][s + 1]

ValidTable(tbl) == \A p \in Columns, s \in Rows : Entry(tbl, p, s) \in 0 .. 31

BuildDone == pc \in {"save", "print", "done"} \/ err = "OSError"

BuildFailed == err \in {"IndexError", "KeyError"}

AllWritten == \A p \in Columns, s \in Rows : writes[p][s] >= 1

\* C1: with a shadow table whose entries all lie in 0..31 (0 and 31
\* included) the build raises nothing, every pixel the loop has written holds
\* exactly palette[shadowTable[p][s]], and once the build is over that is
\* true of all 32 x 8 pixels, in the image and in the file written from it;
\* with the script's own table column 8 reads palette[8], palette[8],
\* palette[24], palette[24], palette[2], palette[21], palette[1], palette[0].
C1_PixelsExact ==
    ValidTable(shadow_levels) =>
        /\ ~BuildFailed
        /\ \A p \in Columns, s \in Rows :
              (writes[p][s] >= 1 \/ BuildDone) =>
                  img[p][s] = palette_colors[Entry(shadow_levels, p, s) + 1]
        /\ file # <<>> =>
              \A p \in Columns, s \in Rows :
                  file[1][p][s] = palette_colors[Entry(shadow_levels, p, s) + 1]
        /\ (shadow_levels = RefShadowLevels /\ BuildDone) =>
              /\ img[8][0] = <<255, 0, 77>>
              /\ img[8][1] = <<255, 0, 77>>
              /\ img[8][2] = <<195, 0, 76>>
              /\ img[8][3] = <<195, 0, 76>>
              /\ img[8][4] = <<126, 37, 83>>
              /\ img[8][5] = <<73, 45, 56>>
              /\ img[8][6] = <<29, 43, 83>>
              /\ img[8][7] = <<0, 0, 0>>

\* A table with an entry moved to the top of the valid range, built and
\* written out.
C1_Witness ==
    /\ ValidTable(shadow_levels)
    /\ Entry(shadow_levels, 8, 2) = 31
    /\ pc = "done"
    /\ file[1][8][2] = <<255, 133, 109>>

\* C2: if any shadow-table entry lies outside 0..31 the build fails: it
\* never gets as far as the save, and the pixel of an out-of-range entry is
\* never written with some valid palette colour.
C2_InvalidIndexFails ==
    ~ValidTable(shadow_levels) =>
        /\ ~BuildDone
        /\ file = <<>>
        /\ \A p \in Columns, s \in Rows :
              Entry(shadow_levels, p, s) \notin 0 .. 31 => writes[p][s] = 0

\* C3: the output file is written only from an image all of whose 256
\* pixels have been built, and holds that image; with an entry equal to 32
\* the run never reaches the save, writes no file, and when it stops it has
\* stopped on the index error.
C3_AllOrNothing ==
    /\ file # <<>> => (AllWritten /\ file[1] = img)
    /\ (\E p \in Columns, s \in Rows : Entry(shadow_levels, p, s) = 32) =>
          /\ pc \in {"fill", "error"}
          /\ file = <<>>
          /\ pc = "error" => (err = "IndexError" /\ exit_status = 1)

\* The run with an entry equal to 32, stopped on the index error with no
\* file written.
C3_Witness ==
    /\ Entry(shadow_levels, 8, 2) = 32
    /\ pc = "error"
    /\ err = "IndexError"
    /\ file = <<>>

Sum3(c) == c[1] + c[2] + c[3]

\* C4: the script's data is well formed: 32 palette entries, a shadow row
\* for each index 0..31 and for nothing else, 8 entries in every row, every
\* entry a palette index in 0..31; and the build of that data raises no
\* index error.
C4_ReferenceWellFormed ==
    /\ Len(palette_colors) = 32
    /\ DOMAIN RefShadowLevels = 0 .. 31
    /\ \A p \in DOMAIN RefShadowLevels : Len(RefShadowLevels[p]) = 8
    /\ \A p \in DOMAIN RefShadowLevels :
          \A i \in DOMAIN RefShadowLevels[p] : RefShadowLevels[p][i] \in 0 .. 31
    /\ shadow_levels = RefShadowLevels => ~BuildFailed

\* The script's own table, its loop run to the end with nothing raised.
C4_Witness ==
    /\ shadow_levels = RefShadowLevels
    /\ pc = "save"
    /\ err = "none"

\* C5: in the script's table every row starts with its own index, and the
\* pixel built at column p, row 0 is palette[p].
C5_LevelZeroIsBase ==
    /\ \A p \in Columns : Entry(RefShadowLevels, p, 0) = p
    /\ shadow_levels = RefShadowLevels =>
          \A p \in Columns :
              (writes[p][0] >= 1 \/ BuildDone) => img[p][0] = palette_colors[p + 1]

\* Row 0 of the last column built from the script's table.
C5_Witness ==
    /\ shadow_levels = RefShadowLevels
    /\ writes[31][0] = 1
    /\ img[31][0] = <<255, 133, 109>>

\* C6: palette index 0 is black, every row of the script's table ends in
\* index 0, and the pixel built at column p, row 7 is black.
C6_DarkestIsBlack ==
    /\ palette_colors[1] = <<0, 0, 0>>
    /\ \A p \in Columns : Entry(RefShadowLevels, p, 7) = 0
    /\ shadow_levels = RefShadowLevels =>
          \A p \in Columns :
              (writes[p][7] >= 1 \/ BuildDone) => img[p][7] = <<0, 0, 0>>

\* Row 7 of a column whose base colour is not black, built from the
\* script's table.
C6_Witness ==
    /\ shadow_levels = RefShadowLevels
    /\ writes[9][7] = 1
    /\ img[9][0] # <<0, 0, 0>>
    /\ img[9][7] = <<0, 0, 0>>

\* C10: in the script's table the channel sum R+G+B never grows from one
\* shadow level to the next, a row that has reached index 0 stays at index
\* 0, and the pixels built from the table darken (or stay) down each column.
C10_NeverBrighter ==
    /\ \A p \in Columns, s \in 0 .. 6 :
          Sum3(palette_colors[Entry(RefShadowLevels, p, s + 1) + 1])
              <= Sum3(palette_colors[Entry(RefShadowLevels, p, s) + 1])
    /\ \A p \in Columns, s \in 0 .. 6 :
          Entry(RefShadowLevels, p, s) = 0 => Entry(RefShadowLevels, p, s + 1) = 0
    /\ shadow_levels = RefShadowLevels =>
          \A p \in Columns, s \in 0 .. 6 :
              (writes[p][s] >= 1 /\ writes[p][s + 1] >= 1) =>
                  Sum3(img[p][s + 1]) <= Sum3(img[p][s])

\* Column 9 of the script's table, built: level 6 strictly darker than
\* level 5.
C10_Witness ==
    /\ shadow_levels = RefShadowLevels
    /\ pc = "done"
    /\ Sum3(img[9][6]) < Sum3(img[9][5])

\* C8: the confirmation is printed only when the file has been written; a
\* run that has ended has ended with status 0 and the confirmation exactly
\* when the file was written; a run stopped by a failed save or a failed
\* lookup has status 1, no confirmation and no file.
Ended == pc \in {"done", "error"}

NoOverwrite ==
    \A p \in Columns, s \in Rows :
        writes[p][s] >= 1 => (writes'[p][s] = writes[p][s] /\ img'[p][s] = img[p][s])

AllWrittenOnce == \A p \in Columns, s \in Rows : writes[p][s] = 1

C9_BuildCompletesOnce ==
    /\ []((pc = "save" \/ file # <<>>) => AllWrittenOnce)
    /\ [][NoOverwrite]_vars
    /\ <>(pc # "fill")

\* The save about to start on a fully written image.
C9_Witness ==
    /\ pc = "save"
    /\ AllWrittenOnce
    /\ file = <<>>

\* The loop run in its own order on each of the tables tried.
SeqResult == [tbl \in Tables |-> SeqBuild(tbl)]

\* C7: in whatever order the 256 loop bodies run, each pixel written
\* holds from then on the value the loop run in its own order gives it, so
\* the grid at the end is that loop's grid, a function of the palette and
\* the shadow table alone; and the loop stops on an exception in some order
\* exactly when it does in its own.
C7_OrderIndependent ==
    LET seq == SeqResult[shadow_levels]
    IN  /\ seq.err = "none" =>
              \A p \in Columns, s \in Rows :
                  writes[p][s] >= 1 => img[p][s] = seq.img[p][s]
        /\ BuildDone => (seq.err = "none" /\ img = seq.img)
        /\ BuildFailed => seq.err = err

\* A build that ran some iteration ahead of its turn, finished.
C7_Witness ==
    /\ pc = "save"
    /\ ~in_order
    /\ AllWritten

====
